---- MODULE Spec2Model ----
(***************************************************************************)
(* Model of ovos-document-chunkers: the paragraph / sentence splitters for *)
(* HTML, Markdown and binary-extracted (PDF, DOCX) documents.              *)
(*                                                                         *)
(* Text.  A Python str is a sequence of atoms.  An atom is one unit of     *)
(* text: a whitespace character (" ", "\n"), a bracket, or a short run of  *)
(* non-whitespace characters that the code only ever treats as a whole     *)
(* ("cookie", "the", "<details>", "http://", ".html", ...).  Every atom of *)
(* a document carries the position it has in the document content, so a   *)
(* text is a sequence of pairs <<atom, position>>; text the code injects   *)
(* (separators, heading paths) has position 0.  The string operations act  *)
(* on the atoms exactly as the Python operations act on the characters and *)
(* carry the positions along.                                              *)
(***************************************************************************)
EXTENDS Integers, Sequences, FiniteSets, TLC

\* ------------------------------------------------------------------ bounds
\* longest HTML text (in atoms) given to the denoiser's line stage
MaxHtmlLen == 4
\* most atoms of leaf content in one Markdown document
MaxLeafLen == 3
\* largest min_words value passed to the filters
MaxMinWords == 2
\* chunk() calls made on one splitter instance
MaxCalls == 2
\* most passes a consumer makes over one returned object
MaxPasses == 2

\* ------------------------------------------------------- string operations
Range(s) == {s[i] : i \in DOMAIN s}
Min(S) == CHOOSE x \in S : \A y \in S : x <= y

\* the characters of a text, without positions
Plain(s) == [i \in 1..Len(s) |-> s[i][1]]
\* the positions of a text that come from the document (injected text is 0)
Positions(s) == SelectSeq([i \in 1..Len(s) |-> s[i][2]], LAMBDA p : p # 0)
\* document content: atom i is at position base + i
Tag(s, base) == [i \in 1..Len(s) |-> <<s[i], base + i>>]
\* text the code itself produces
Inj(s) == [i \in 1..Len(s) |-> <<s[i], 0>>]

\* str.isspace for one atom
IsSpace(a) == a \in {" ", "\n"}

\* str.lower for one atom
LowerAtom(a) ==
  CASE a = "The" -> "the"
    [] a = "Cookie" -> "cookie"
    [] OTHER -> a

\* str.lower
lower(s) == [i \in 1..Len(s) |-> <<LowerAtom(s[i][1]), s[i][2]>>]

\* does the plain pattern pat occur in s at index i
MatchAt(s, i, pat) ==
  /\ i + Len(pat) - 1 <= Len(s)
  /\ \A k \in 1..Len(pat) : s[i + k - 1][1] = pat[k]

\* Python `pat in s` for a plain pattern and a text
contains(pat, s) == \E i \in 1..(Len(s) + 1) : MatchAt(s, i, pat)

\* str.split(sep) for a non-empty plain separator: leftmost, non-overlapping
RECURSIVE split(_, _)
split(s, sep) ==
  LET hits == {i \in 1..Len(s) : MatchAt(s, i, sep)}
  IN IF hits = {} THEN <<s>>
     ELSE LET i == Min(hits)
          IN <<SubSeq(s, 1, i - 1)>> \o split(SubSeq(s, i + Len(sep), Len(s)), sep)

\* str.strip()
RECURSIVE lstrip(_)
lstrip(s) == IF s # <<>> /\ IsSpace(s[1][1]) THEN lstrip(Tail(s)) ELSE s
RECURSIVE rstrip(_)
rstrip(s) ==
  IF s # <<>> /\ IsSpace(s[Len(s)][1]) THEN rstrip(SubSeq(s, 1, Len(s) - 1)) ELSE s
strip(s) == rstrip(lstrip(s))

\* str.split() without argument: the maximal runs of non-whitespace
RECURSIVE words(_)
words(s) ==
  LET t == lstrip(s)
      stops == {i \in 1..Len(t) : IsSpace(t[i][1])}
      n == IF stops = {} THEN Len(t) ELSE Min(stops) - 1
  IN IF t = <<>> THEN <<>>
     ELSE <<SubSeq(t, 1, n)>> \o words(SubSeq(t, n + 1, Len(t)))

\* sep.join(parts) for a plain separator
RECURSIVE join(_, _)
join(sep, parts) ==
  IF parts = <<>> THEN <<>>
  ELSE IF Len(parts) = 1 THEN parts[1]
  ELSE parts[1] \o Inj(sep) \o join(sep, Tail(parts))

\* str.replace(a, "") for one atom
remove(s, a) == SelectSeq(s, LAMBDA t : t[1] # a)

\* [x.strip() for x in ss]
StripAll(ss) == [i \in 1..Len(ss) |-> strip(ss[i])]

\* the concatenation of a sequence of texts
RECURSIVE Flatten(_)
Flatten(ss) == IF ss = <<>> THEN <<>> ELSE Head(ss) \o Flatten(Tail(ss))

\* all sequences over S of length at most n
SeqsUpTo(S, n) == UNION {[1..k -> S] : k \in 0..n}

\* ------------------------------------------------------------ alphabets
\* len(a) of one atom, in characters
CharLen(a) ==
  CASE a \in {"cookie", "Cookie"} -> 6
    [] a = "word" -> 4
    [] a \in {"the", "The"} -> 3
    [] a = "<details>" -> 9
    [] a = "</details>" -> 10
    [] OTHER -> 1

\* len(w) of a text, in characters
RECURSIVE len(_)
len(w) == IF w = <<>> THEN 0 ELSE CharLen(w[1][1]) + len(Tail(w))

\* atoms of the texts given to the HTML line stage and the PDF/DOCX block stage
HtmlAtoms == {"word", "the", "cookie", "Cookie", " ", "\n"}
\* atoms of Markdown leaf content
MdAtoms == {"word", " ", "\n", "[", "]", "<details>", "</details>"}

\* ------------------------------------------------- HTML denoiser, line stage
\* `value or default`: None and the empty list both take the default
or_default(value, default) == IF value = <<>> THEN default ELSE value

DefaultBadWordsHtml == << <<"cookie">> >>
DefaultStopWordsHtml ==
  << <<"the">>, <<"a">>, <<"an">>, <<"to">>, <<"of">>, <<"for">>, <<"as">>,
     <<"and">>, <<"it">>, <<"in">>, <<"we">>, <<"i">> >>
DefaultMinWords == 5

\* [w for w in l.split() if w.lower() not in stop_words]
counted_words(l, stop_words) ==
  SelectSeq(words(l), LAMBDA w : Plain(lower(w)) \notin Range(stop_words))

\* any([w in l.lower() for w in bad_words])
has_bad_word(l, bad_words) ==
  \E k \in DOMAIN bad_words : contains(bad_words[k], lower(l))

\* the loop over cleaned_html.split("\n") that builds `lines`
RECURSIVE filter_lines(_, _, _, _)
filter_lines(ls, bad_words, stop_words, min_words) ==
  IF ls = <<>> THEN <<>>
  ELSE LET l == Head(ls)
           lnorm == join(<<" ">>, counted_words(l, stop_words))
           rest == filter_lines(Tail(ls), bad_words, stop_words, min_words)
       IN IF Plain(l) = <<"\n">> THEN <<l>> \o rest
          ELSE IF has_bad_word(l, bad_words) THEN rest
          ELSE IF Len(words(lnorm)) < min_words THEN <<Inj(<<"\n">>)>> \o rest
          ELSE <<l>> \o rest

\* the blocks cut at every pair of newlines
html_blocks_on_two(cleaned_html) ==
  StripAll(SelectSeq(split(cleaned_html, <<"\n", "\n">>), LAMBDA l : strip(l) # <<>>))

\* the blocks as cut, with the whitespace around them left on
html_blocks_untrimmed(cleaned_html) ==
  SelectSeq(split(cleaned_html, <<"\n", "\n", "\n">>), LAMBDA l : strip(l) # <<>>)

\* the blocks collected from the last one to the first
html_blocks_reversed(cleaned_html) ==
  LET parts == split(cleaned_html, <<"\n", "\n", "\n">>)
  IN StripAll(SelectSeq([i \in 1..Len(parts) |-> parts[Len(parts) + 1 - i]],
                        LAMBDA l : strip(l) # <<>>))

\* [l.strip() for l in cleaned_html.split("\n\n\n") if l.strip()]
html_blocks(cleaned_html) ==
  StripAll(SelectSeq(split(cleaned_html, <<"\n", "\n", "\n">>),
                     LAMBDA l : strip(l) # <<>>))

\* ---------------------------------------------- HTML denoiser, tag stage
\* A tag is one atom of the text.  The tags of the documents modelled:
TagAtoms ==
  {"<p>", "</p>", "<p id=x>", "<h1>", "</h1>", "<h2>", "</h2>", "<br>", "<div>", "</div>",
   "<span>", "</span>", "<script>", "</script>", "<style>", "</style>"}

\* clean_tags.match(tag): div, h1..h6, p and br, opening or closing
Whitelisted(a) ==
  a \in {"<p>", "</p>", "<p id=x>", "<h1>", "</h1>", "<h2>", "</h2>", "<br>", "<div>", "</div>"}

\* the index of the first `close` atom after s[1], or 0 if there is none or,
\* when "." does not match a newline, if a newline comes before it
CloseAt(s, close, dotall) ==
  IF \E j \in 2..Len(s) :
       /\ s[j][1] = close
       /\ \A k \in 2..(j - 1) : s[k][1] # close /\ (dotall \/ s[k][1] # "\n")
  THEN CHOOSE j \in 2..Len(s) :
         /\ s[j][1] = close
         /\ \A k \in 2..(j - 1) : s[k][1] # close /\ (dotall \/ s[k][1] # "\n")
  ELSE 0

\* re.sub of the pattern open (.*?) close over s, leftmost matches first: the
\* match is dropped, or replaced by "\n\n" and its inner text
RECURSIVE elem_sub(_, _, _, _, _)
elem_sub(s, open, close, dotall, keep_inner) ==
  IF s = <<>> THEN <<>>
  ELSE IF s[1][1] = open /\ CloseAt(s, close, dotall) # 0
  THEN (IF keep_inner
        THEN Inj(<<"\n", "\n">>) \o SubSeq(s, 2, CloseAt(s, close, dotall) - 1)
        ELSE <<>>)
       \o elem_sub(SubSeq(s, CloseAt(s, close, dotall) + 1, Len(s)),
                   open, close, dotall, keep_inner)
  ELSE <<s[1]>> \o elem_sub(Tail(s), open, close, dotall, keep_inner)

\* <script> and <style> elements removed with their content (DOTALL)
remove_scripts(s) ==
  elem_sub(elem_sub(s, "<script>", "</script>", TRUE, FALSE),
           "<style>", "</style>", TRUE, FALSE)

\* every tag that is not whitelisted removed, its content left
strip_tags(s) == SelectSeq(s, LAMBDA a : a[1] \notin TagAtoms \/ Whitelisted(a[1]))

\* tag_cleaner: the attributes of a tag removed
clean_attributes(s) ==
  [i \in 1..Len(s) |-> IF s[i][1] = "<p id=x>" THEN <<"<p>", s[i][2]>> ELSE s[i]]

\* <div>, </div> and <br> each replaced by a newline
RECURSIVE break_tags(_)
break_tags(s) ==
  IF s = <<>> THEN <<>>
  ELSE (IF s[1][1] \in {"<div>", "</div>", "<br>"} THEN Inj(<<"\n">>) ELSE <<s[1]>>)
       \o break_tags(Tail(s))

\* the loop over the header tags h1..h6
header_tags(s) ==
  elem_sub(elem_sub(s, "<h1>", "</h1>", FALSE, TRUE), "<h2>", "</h2>", FALSE, TRUE)

\* <p>...</p> replaced by "\n\n" and the inner text
paragraph_tags(s) == elem_sub(s, "<p>", "</p>", FALSE, TRUE)

\* lines 118-142 of denoise_html
rewrite_tags(html_content) ==
  paragraph_tags(header_tags(break_tags(clean_attributes(strip_tags(
    remove_scripts(html_content))))))

\* denoise_html on resolved content
denoise_html(html_content, bad_words, stop_words, min_words) ==
  LET bw == or_default(bad_words, DefaultBadWordsHtml)
      sw == or_default(stop_words, DefaultStopWordsHtml)
      lines == filter_lines(split(rewrite_tags(html_content), <<"\n">>), bw, sw, min_words)
  IN html_blocks(join(<<"\n">>, lines))

\* ------------------------------------------- PDF / DOCX parser, block stage
\* [w for w in chunk.split() if w.lower() not in stop_words and len(w) > 3]
long_words(chunk, stop_words) ==
  SelectSeq(words(chunk),
            LAMBDA w : Plain(lower(w)) \notin Range(stop_words) /\ len(w) > 3)

\* the loop over text.split("\n\n") of parse_pdf and parse_docx
RECURSIVE filter_blocks(_, _, _, _)
filter_blocks(cs, bad_words, stop_words, min_words) ==
  IF cs = <<>> THEN <<>>
  ELSE LET chunk == Head(cs)
           lnorm == join(<<" ">>, long_words(chunk, stop_words))
           rest == filter_blocks(Tail(cs), bad_words, stop_words, min_words)
       IN IF has_bad_word(chunk, bad_words) THEN rest
          ELSE IF Len(words(lnorm)) < min_words THEN rest
          ELSE <<strip(chunk)>> \o rest

\* parse_pdf / parse_docx on the extracted text
parse_text(text, bad_words, stop_words, min_words) ==
  filter_blocks(split(text, <<"\n", "\n">>),
                or_default(bad_words, <<>>), or_default(stop_words, <<>>), min_words)

\* --------------------------------------------------------- Markdown walker
\* the parsed document: a str leaf, a dict (sequence of <<key, node>>) or a list
Str(s) == [t |-> "str", s |-> s, d |-> <<>>]
Dict(items) == [t |-> "dict", s |-> <<>>, d |-> items]
List(items) == [t |-> "list", s |-> <<>>, d |-> items]

\* str(i) of a list index
IndexKey(i) == Inj(<< CASE i = 0 -> "0" [] i = 1 -> "1" [] OTHER -> "n" >>)

\* the pairs passed up with no key put in front
prefixed_dropping(k, sub) == sub

\* f"{k} - {k3}" put in front of every pair of sub
prefixed(k, sub) ==
  [i \in 1..Len(sub) |-> <<k \o Inj(<<" - ">>) \o sub[i][1], sub[i][2]>>]

\* c2.replace("[", "").replace("]", "").strip()
clean_txt(c) == strip(remove(remove(c, "["), "]"))

\* for c in cs: for c2 in c.split("<details>")
inner_parts(cs) == Flatten([i \in 1..Len(cs) |-> split(cs[i], <<"<details>">>)])

\* the pieces of a leaf between <details> and </details> markers, in order
details_parts(chunk) == inner_parts(split(chunk, <<"</details>">>))

\* every piece left with its brackets
strip_brackets_kept(cs) == cs

\* c2.replace("[", "").replace("]", "") of every piece
strip_brackets(cs) == [i \in 1..Len(cs) |-> remove(remove(cs[i], "["), "]")]
details_parts_clean(chunk) == strip_brackets(details_parts(chunk))

\* yield k, c2 for every piece c2 of cs
keyed(k, cs) == [i \in 1..Len(cs) |-> <<k, cs[i]>>]

\* the body of the loop of _parse_txt for chunk = d.strip()
_parse_chunk(k, chunk) ==
  IF contains(<<"</details>">>, chunk)
  THEN keyed(k, SelectSeq(StripAll(details_parts_clean(chunk)), LAMBDA c2 : c2 # <<>>))
  ELSE << <<k, clean_txt(chunk)>> >>

_parse_txt(k, d) == _parse_chunk(k, strip(d))

RECURSIVE _parse_dict(_, _, _)
RECURSIVE _parse_list(_, _)
RECURSIVE _parse_list_from(_, _, _)

\* the recursive calls pass no skip_lists, so below the top level it is True
_parse_dict(k, d, skip_lists) ==
  IF d = <<>> THEN <<>>
  ELSE LET k2 == d[1][1]
           v == d[1][2]
           sub == CASE v.t = "dict" -> _parse_dict(k2, v.d, TRUE)
                    [] v.t = "list" -> IF skip_lists THEN <<>> ELSE _parse_list(k2, v.d)
                    [] OTHER -> _parse_txt(k2, v.s)
       IN prefixed(k, sub) \o _parse_dict(k, Tail(d), skip_lists)

\* the items of d from index i on (enumerate counts from 0)
_parse_list_from(k, d, i) ==
  IF d = <<>> THEN <<>>
  ELSE LET v == d[1]
           sub == CASE v.t = "dict" -> _parse_dict(k, v.d, TRUE)
                    [] v.t = "list" -> _parse_list(k, v.d)
                    [] OTHER -> _parse_txt(IndexKey(i), v.s)
       IN prefixed(k, sub) \o _parse_list_from(k, Tail(d), i + 1)

_parse_list(k, d) == _parse_list_from(k, d, 0)

\* every pair emitted with its title, whatever include_title says
titled_always(pairs, include_title) ==
  [i \in 1..Len(pairs) |-> pairs[i][1] \o Inj(<<"\n", "\n">>) \o pairs[i][2]]

\* MarkdownParagraphSplitter.chunk on the parsed document
titled(pairs, include_title) ==
  [i \in 1..Len(pairs) |->
     IF include_title
     THEN pairs[i][1] \o Inj(<<"\n", "\n">>) \o pairs[i][2]
     ELSE pairs[i][2]]

md_paragraphs(raw, include_title) == titled(_parse_dict(<<>>, raw, TRUE), include_title)

\* the lines of one paragraph that MarkdownSentenceSplitter.chunk yields
md_lines(chunk) == StripAll(SelectSeq(split(chunk, <<"\n">>), LAMBDA p : p # <<>>))

\* MarkdownSentenceSplitter.chunk on the parsed document
md_lines_of_all(cs) == Flatten([i \in 1..Len(cs) |-> md_lines(cs[i])])

md_sentences(raw) == md_lines_of_all(md_paragraphs(raw, FALSE))


\* ============================================================ collaborators
\* quebra_frases.sentence_tokenize: the sentences of p, each ending with its "."
RECURSIVE sentence_tokenize(_)
sentence_tokenize(p) ==
  LET t == strip(p)
      dots == {i \in 1..Len(t) : t[i][1] = "."}
      n == IF dots = {} THEN Len(t) ELSE Min(dots)
  IN IF t = <<>> THEN <<>>
     ELSE <<SubSeq(t, 1, n)>> \o sentence_tokenize(SubSeq(t, n + 1, Len(t)))

\* markdown_to_json.dictify for a document of top-level headings with distinct
\* titles: a line "#" + key opens a section, the lines up to the next heading
\* are its content
RECURSIVE sections(_, _)
sections(ls, acc) ==
  IF ls = <<>> THEN acc
  ELSE LET l == Head(ls)
       IN IF l # <<>> /\ l[1][1] = "#"
          THEN sections(Tail(ls), Append(acc, <<Inj(Plain(strip(Tail(l)))), <<>>>>))
          ELSE IF acc = <<>> THEN sections(Tail(ls), acc)
          ELSE sections(Tail(ls),
                        [acc EXCEPT ![Len(acc)] = <<@[1], Append(@[2], l)>>])

leaves(secs) == [i \in 1..Len(secs) |-> <<secs[i][1], Str(join(<<"\n">>, secs[i][2]))>>]

dictify(data) == leaves(sections(split(data, <<"\n">>), <<>>))

\* ------------------------------------------------------------ the world
\* five words on one line
W5 == <<"word", " ", "word", " ", "word", " ", "word", " ", "word">>

HtmlDoc ==
  W5 \o <<"\n", "cookie", " ">> \o W5 \o <<"\n", "word", "\n">> \o W5 \o <<".", " ">> \o W5
MdDoc ==
  <<"#", "T", "\n", "word", " ", "word", "\n", "#", "S", "\n", "[", "]", "\n",
    "#", "R", "\n", "word", "\n", " ", "\n", "word">>
ExtractedText ==
  W5 \o <<"\n", "\n", "word", " ", "word", "\n", "\n", "Cookie", " ">> \o W5
  \o <<"\n", "word", " ", "word", " ", "word", " ", "word">>
ErrorPage == <<"cookie", "\n">> \o W5

PathHtml == <<"/doc", ".html">>
PathMd == <<"/doc", ".md">>
PathPdf == <<"/doc", ".pdf">>
PathDocx == <<"/doc", ".docx">>
UrlHtml == <<"http://", "html">>
UrlMd == <<"https://", "md">>
UrlBad == <<"https://", "bad">>
UrlPathHtml == <<"http://", "path", ".html">>
UrlPathPdf == <<"http://", "path", ".pdf">>
\* literal text that merely begins with the letters http
LitHttp == <<"http", " ">> \o W5

\* the local files: what open() reads and what textract extracts
Files ==
  (PathHtml :> [fmt |-> "html", text |-> HtmlDoc]) @@
  (PathMd :> [fmt |-> "md", text |-> MdDoc]) @@
  (PathPdf :> [fmt |-> "pdf", text |-> ExtractedText]) @@
  (PathDocx :> [fmt |-> "docx", text |-> ExtractedText])

\* the web: status and response body of every URL that resolves
Web ==
  (UrlHtml :> [ok |-> TRUE, text |-> HtmlDoc]) @@
  (UrlMd :> [ok |-> TRUE, text |-> MdDoc]) @@
  (UrlBad :> [ok |-> FALSE, text |-> ErrorPage]) @@
  (UrlPathHtml :> [ok |-> TRUE, text |-> PathHtml]) @@
  (UrlPathPdf :> [ok |-> TRUE, text |-> PathPdf])

Inputs ==
  {HtmlDoc, MdDoc, LitHttp, PathHtml, PathMd, PathPdf, PathDocx,
   UrlHtml, UrlMd, UrlBad, UrlPathHtml, UrlPathPdf}

\* requests.get: the response, or the exception for what is no URL
requests_get(url) ==
  IF url \in DOMAIN Web
  THEN [raised |-> "none", ok |-> Web[url].ok, text |-> Web[url].text]
  ELSE [raised |-> "MissingSchema", ok |-> FALSE, text |-> <<>>]

\* a status check that lets every response through
raise_for_status_ignored(response) == "none"

\* response.raise_for_status()
raise_for_status(response) == IF response.ok THEN "none" ELSE "HTTPError"

\* os.path.isfile
isfile(path) == path \in DOMAIN Files

\* textract.process(path, extension=ext).decode("utf-8")
textract_process(path, ext) ==
  IF isfile(path) /\ Files[path].fmt = ext
  THEN [err |-> "none", text |-> Files[path].text]
  ELSE [err |-> "ExtractionError", text |-> <<>>]

\* ------------------------------------------------------- input resolution
\* data.startswith("http"), for data made of atoms
startswith_http(data) == data # <<>> /\ data[1] \in {"http", "http://", "https://"}
\* data.endswith(ext)
endswith(data, ext) == data # <<>> /\ data[Len(data)] = ext

Resolved(err, content, fetched, opened) ==
  [err |-> err, content |-> content, fetched |-> fetched, opened |-> opened]

\* if data.startswith("http"): get, raise_for_status, data = response.text
fetch_if_http(data) ==
  IF startswith_http(data)
  THEN LET response == requests_get(data)
           err == IF response.raised # "none" THEN response.raised
                  ELSE raise_for_status(response)
       IN Resolved(err, IF err = "none" THEN response.text ELSE <<>>, <<data>>, <<>>)
  ELSE Resolved("none", data, <<>>, <<>>)

\* if os.path.isfile(data) and data.endswith(ext): data = open(data).read()
read_if_file(r, ext) ==
  IF r.err = "none" /\ isfile(r.content) /\ endswith(r.content, ext)
  THEN Resolved("none", Files[r.content].text, r.fetched, Append(r.opened, r.content))
  ELSE r

\* the head of denoise_html
resolve_html(html_content) == read_if_file(fetch_if_http(html_content), ".html")
\* the head of MarkdownParagraphSplitter.chunk
resolve_md(data) == read_if_file(fetch_if_http(data), ".md")

\* text = textract.process(path, ...): the path is whatever r holds by now
extract(r, ext) ==
  IF r.err # "none" THEN r
  ELSE LET x == textract_process(r.content, ext)
       IN Resolved(x.err, x.text, r.fetched, Append(r.opened, r.content))

\* the head of parse_pdf / parse_docx (files/): fetch, then extract
resolve_binary(path, ext) == extract(fetch_if_http(path), ext)
\* the head of parse_pdf (text/): extract only
resolve_binary_text(path) == extract(Resolved("none", path, <<>>, <<>>), "pdf")

\* ------------------------------------------------------------ the splitters
\* the token floors of the sentence splitters
HtmlFloor == 4
BinaryFloor == 3

ParagraphKinds == {"html_par", "md_par", "pdf_par", "docx_par", "txtpdf_par"}
SentenceKinds == {"html_sent", "md_sent", "pdf_sent", "docx_sent", "txtpdf_sent"}
Kinds == ParagraphKinds \cup SentenceKinds
\* the kinds whose chunk() returns a list and not a generator
ListKinds == {"html_par"}

\* the paragraph splitter class a sentence splitter constructs for itself
InnerKind(kind) ==
  CASE kind = "html_sent" -> "html_par"
    [] kind = "md_sent" -> "md_par"
    [] kind = "pdf_sent" -> "pdf_par"
    [] kind = "docx_sent" -> "docx_par"
    [] kind = "txtpdf_sent" -> "txtpdf_par"
    [] OTHER -> "none"

\* __init__: self.config = config, self.splitter = <Paragraph splitter>(self.config)
Construct(kind, config) ==
  [kind |-> kind, config |-> config,
   splitter |-> [kind |-> InnerKind(kind), config |-> config]]

\* what one run of a chunk() body does: the error it raises, the chunks it
\* yields, the URLs it fetched and the paths it opened
Ran(r, items) ==
  [err |-> r.err, items |-> IF r.err = "none" THEN items ELSE <<>>,
   fetched |-> r.fetched, opened |-> r.opened]

\* for p in chunk.split("\n"): for s in sentence_tokenize(p)
tokenize_all(ps) == Flatten([i \in 1..Len(ps) |-> sentence_tokenize(ps[i])])

\* ...: if s and len(s.split()) > 4: yield s.strip()
html_sentences_of(chunk) ==
  StripAll(SelectSeq(tokenize_all(split(chunk, <<"\n">>)),
                     LAMBDA x : x # <<>> /\ Len(words(x)) > HtmlFloor))

\* for p in chunk.split("\n"): if len(p.split()) > 3: yield p.strip()
binary_sentences_of(chunk) ==
  StripAll(SelectSeq(split(chunk, <<"\n">>), LAMBDA p : Len(words(p)) > BinaryFloor))

\* the head of the parser a paragraph splitter of this kind calls
resolve(kind, data) ==
  CASE kind = "html_par" -> resolve_html(data)
    [] kind = "md_par" -> resolve_md(data)
    [] kind = "pdf_par" -> resolve_binary(data, "pdf")
    [] kind = "docx_par" -> resolve_binary(data, "docx")
    [] OTHER -> resolve_binary_text(data)

\* the rest of that parser on the resolved content; chunk() calls
\* denoise_html(data), parse_pdf(data), parse_docx(data): the options of
\* self.config are passed to none of them
parse(kind, content, include_title) ==
  CASE kind = "html_par" -> denoise_html(content, <<>>, <<>>, DefaultMinWords)
    [] kind = "md_par" -> md_paragraphs(dictify(content), include_title)
    [] OTHER -> parse_text(content, <<>>, <<>>, DefaultMinWords)

parse_resolved(kind, r, include_title) ==
  Ran(r, parse(kind, Tag(r.content, 0), include_title))

\* the body of a paragraph splitter's chunk(data)
paragraph_body(self, data, include_title) ==
  parse_resolved(self.kind, resolve(self.kind, data), include_title)

\* the sentence-level pieces of one paragraph chunk
sentences_of(kind, chunk) ==
  CASE kind = "html_sent" -> html_sentences_of(chunk)
    [] kind = "md_sent" -> md_lines(chunk)
    [] OTHER -> binary_sentences_of(chunk)

sentences_of_run(kind, r) ==
  Ran(r, Flatten([i \in 1..Len(r.items) |-> sentences_of(kind, r.items[i])]))

\* the body of a sentence splitter's chunk(data): the pieces of the chunks of
\* self.splitter.chunk(data)
sentence_body(self, data) ==
  sentences_of_run(self.kind, paragraph_body(self.splitter, data, FALSE))

chunk_body(self, data) ==
  IF self.kind \in ParagraphKinds THEN paragraph_body(self, data, TRUE)
  ELSE sentence_body(self, data)

\* a chunk() that consumes the options it was constructed with
instance_after_chunk_clearing(self) ==
  [self EXCEPT !.config = <<>>, !.splitter.config = <<>>]

\* the instance after chunk() ran: no chunk() assigns an attribute of self
instance_after_chunk(self) == self

\* ================================================================= state
\* the functions applied to bounded inputs: input, result, "in" / "out" / "off"
VARIABLES tin, tout, tpc
tvars == <<tin, tout, tpc>>

\* one splitter instance, its caller and the consumer of what chunk() returns
VARIABLES
  splitter,   \* the instance
  built,      \* the instance as constructed
  pc,         \* "idle", "returned", "iterating", "exhausted" or "failed"
  data,       \* the argument of the current chunk() call
  obj,        \* the object chunk() returned
  out,        \* what the consumer got in its current pass over obj
  npass,      \* passes over obj the consumer has begun
  fetches,    \* URLs the current call gave to requests.get
  opened,     \* paths the current call opened or had extracted
  err,        \* the error the current call raised to the caller
  ncalls,     \* chunk() calls so far
  first       \* the first call: its argument, what its consumer got in its one
              \* pass and whether that pass came to the end
lvars == <<splitter, built, pc, data, obj, out, npass, fetches, opened, err, ncalls, first>>
vars == <<lvars, tvars>>


NoObj == [lazy |-> FALSE, started |-> FALSE, items |-> <<>>, cursor |-> 0]
NoFirst == [set |-> FALSE, data |-> <<>>, chunks |-> <<>>, err |-> "none", full |-> FALSE]

LIdle ==
  /\ pc = "idle" /\ data = <<>> /\ obj = NoObj /\ out = <<>> /\ npass = 0
  /\ fetches = <<>> /\ opened = <<>> /\ err = "none" /\ ncalls = 0 /\ first = NoFirst
TIdle == tin = <<>> /\ tout = <<>> /\ tpc = "off"

\* ============================================================ the functions
\* The splitting functions applied to every input of the bounded sets.

\* the configured word lists the filters are given (<<>>: not given)
BadWordLists == {<<>>, << <<"cookie">> >>, << <<"Cookie">> >>}
StopWordLists == {<<>>, << <<"the">> >>, << <<"The">> >>}

HtmlTexts == {Tag(s, 0) : s \in SeqsUpTo(HtmlAtoms, MaxHtmlLen)}

Key(a) == Inj(<<a>>)

\* parsed Markdown documents with leaf contents a and b, a before b
MdShape(n, a, b) ==
  CASE n = 1 -> << <<Key("T"), Str(a)>>, <<Key("S"), Str(b)>> >>
    [] n = 2 -> << <<Key("T"), Dict(<< <<Key("S"), Str(a)>>, <<Key("R"), Str(b)>> >>)>> >>
    [] n = 3 -> << <<Key("T"), Dict(<< <<Key("S"), Dict(<< <<Key("R"), Str(a)>> >>)>> >>)>>,
                   <<Key("U"), Str(b)>> >>
    [] OTHER -> << <<Key("T"), List(<<Str(a)>>)>>, <<Key("S"), Str(b)>> >>

\* the leaf contents a, b of one document: at most MaxLeafLen atoms in all
LeafTexts(n) == SeqsUpTo(MdAtoms, n)

TextInput(fn, text, raw, bw, sw, mw, title) ==
  [fn |-> fn, text |-> text, raw |-> raw, bad_words |-> bw, stop_words |-> sw,
   min_words |-> mw, include_title |-> title]

TInitText ==
  \E fn \in {"html", "pdf"}, t \in HtmlTexts, bw \in BadWordLists,
     sw \in StopWordLists, mw \in 0..MaxMinWords :
    tin = TextInput(fn, t, <<>>, bw, sw, mw, FALSE)

TInitMd ==
  \E n \in 1..4, a \in LeafTexts(MaxLeafLen) :
    \E b \in LeafTexts(MaxLeafLen - Len(a)), v \in {"par", "title", "sent"} :
      tin = TextInput(IF v = "sent" THEN "md_sent" ELSE "md_par", <<>>,
                      MdShape(n, Tag(a, 10), Tag(b, 20)), <<>>, <<>>, 0, v = "title")

\* longest rejoined text given to the last step of the denoiser, in atoms
MaxJoinedLen == 7

\* rejoined texts: lines of words with runs of newlines between them
TInitJoined ==
  \E t \in SeqsUpTo({"word", " ", "\n"}, MaxJoinedLen) :
    tin = TextInput("blocks", Tag(t, 0), <<>>, <<>>, <<>>, 0, FALSE)

\* most words of a line of a paragraph block
MaxLineWords == 6

\* a line of n words, the dot-th of them ending a sentence (0: none does)
LineOf(n, dot) ==
  Flatten([i \in 1..n |-> (IF i > 1 THEN <<" ">> ELSE <<>>) \o <<"word">>
                           \o (IF i = dot THEN <<".">> ELSE <<>>)])

\* paragraph blocks of one or two lines, as a paragraph splitter emits them
TInitLines ==
  \E fn \in {"html_sent", "bin_sent"}, n1 \in 1..MaxLineWords, n2 \in 0..MaxLineWords :
    \E d1 \in 0..n1, d2 \in 0..n2, pad \in {<<>>, <<" ">>} :
      tin = TextInput(fn, Tag(IF n2 = 0 THEN LineOf(n1, d1)
                              ELSE LineOf(n1, d1) \o <<"\n">> \o pad \o LineOf(n2, d2), 0),
                      <<>>, <<>>, <<>>, 0, FALSE)

\* longest inner content of an element of a tagged document, in atoms
MaxInnerLen == 3

\* the elements: opening tag and closing tag
Elements ==
  { <<"<p>", "</p>">>, <<"<p id=x>", "</p>">>, <<"<h1>", "</h1>">>, <<"<h2>", "</h2>">>,
    <<"<div>", "</div>">>, <<"<span>", "</span>">>, <<"<script>", "</script>">>,
    <<"<style>", "</style>">> }

\* well-formed HTML: one element, closed, with text and line breaks in it,
\* and text before or after it
TInitTagged ==
  \E e \in Elements, inner \in SeqsUpTo({"word", " ", "<br>"}, MaxInnerLen),
     pre \in {<<>>, <<"word">>}, post \in {<<>>, <<"word">>}, mw \in 0..MaxMinWords :
    tin = TextInput("html", Tag(pre \o <<e[1]>> \o inner \o <<e[2]>> \o post, 0),
                    <<>>, <<>>, <<>>, mw, FALSE)

\* parsed Markdown documents with a list-valued node: x and y are the string
\* items of the list, b is the content of a heading
TreeShape(n, x, y, b) ==
  CASE n = 1 -> << <<Key("T"), List(<<Str(x), Str(y)>>)>>, <<Key("S"), Str(b)>> >>
    [] n = 2 -> << <<Key("T"), Dict(<< <<Key("S"), List(<<Str(x), Str(y)>>)>>,
                                       <<Key("R"), Str(b)>> >>)>> >>
    [] n = 3 -> << <<Key("T"), List(<<List(<<Str(x)>>), Str(y)>>)>>, <<Key("S"), Str(b)>> >>
    [] OTHER -> << <<Key("T"), List(<<Dict(<< <<Key("S"), List(<<Str(x)>>)>> >>), Str(y)>>)>>,
                   <<Key("R"), Str(b)>> >>

\* the contents of list items and headings: they hold a word
ItemTexts == {t \in SeqsUpTo({"word", " ", "["}, MaxLeafLen) : "word" \in Range(t)}

TInitTree ==
  \E n \in 1..4, x \in ItemTexts, y \in {<<"word">>, <<"word", "]">>},
     b \in {<<"word">>, <<" ", "word">>}, skip_lists \in BOOLEAN :
    tin = [fn |-> "md_tree", raw |-> TreeShape(n, Tag(x, 30), Tag(y, 40), Tag(b, 20)),
           skip_lists |-> skip_lists]

\* longest leaf content with collapsible sections, in atoms
MaxDetailLen == 5

\* leaf contents with <details> and </details> markers and brackets
TInitLeaf ==
  \E d \in SeqsUpTo({"word", " ", "[", "<details>", "</details>"}, MaxDetailLen) :
    tin = [fn |-> "md_txt", text |-> Tag(d, 0)]

TInit ==
  /\ \/ TInitText \/ TInitMd \/ TInitJoined \/ TInitLines \/ TInitTagged
     \/ TInitTree \/ TInitLeaf
  /\ tout = <<>> /\ tpc = "in"
  /\ splitter = Construct("md_par", <<>>) /\ built = splitter /\ LIdle

\* denoise_html(text, bad_words, stop_words, min_words)
ApplyDenoiseHtml ==
  /\ tpc = "in" /\ tin.fn = "html"
  /\ tout' = denoise_html(tin.text, tin.bad_words, tin.stop_words, tin.min_words)
  /\ tpc' = "out" /\ UNCHANGED <<tin, lvars>>

\* parse_pdf / parse_docx on extracted text
ApplyParseText ==
  /\ tpc = "in" /\ tin.fn = "pdf"
  /\ tout' = parse_text(tin.text, tin.bad_words, tin.stop_words, tin.min_words)
  /\ tpc' = "out" /\ UNCHANGED <<tin, lvars>>

\* MarkdownParagraphSplitter.chunk(data, include_title)
ApplyMdParagraphs ==
  /\ tpc = "in" /\ tin.fn = "md_par"
  /\ tout' = md_paragraphs(tin.raw, tin.include_title)
  /\ tpc' = "out" /\ UNCHANGED <<tin, lvars>>

\* MarkdownSentenceSplitter.chunk(data)
ApplyMdSentences ==
  /\ tpc = "in" /\ tin.fn = "md_sent"
  /\ tout' = md_sentences(tin.raw)
  /\ tpc' = "out" /\ UNCHANGED <<tin, lvars>>

\* the last step of denoise_html on the rejoined text
ApplyHtmlBlocks ==
  /\ tpc = "in" /\ tin.fn = "blocks"
  /\ tout' = html_blocks(tin.text)
  /\ tpc' = "out" /\ UNCHANGED <<tin, lvars>>

\* the loops of HTMLSentenceSplitter.chunk on one chunk of its paragraph splitter
ApplyHtmlSentences ==
  /\ tpc = "in" /\ tin.fn = "html_sent"
  /\ tout' = html_sentences_of(tin.text)
  /\ tpc' = "out" /\ UNCHANGED <<tin, lvars>>

\* the loop of PDFSentenceSplitter.chunk / DOCxSentenceSplitter.chunk on one
\* chunk of its paragraph splitter
ApplyBinarySentences ==
  /\ tpc = "in" /\ tin.fn = "bin_sent"
  /\ tout' = binary_sentences_of(tin.text)
  /\ tpc' = "out" /\ UNCHANGED <<tin, lvars>>

\* _parse_dict("", raw, skip_lists) on the parsed document
ApplyParseDict ==
  /\ tpc = "in" /\ tin.fn = "md_tree"
  /\ tout' = _parse_dict(<<>>, tin.raw, tin.skip_lists)
  /\ tpc' = "parsed" /\ UNCHANGED <<tin, lvars>>

\* _parse_txt(k, d) on the content of the leaf under heading T
ApplyParseTxt ==
  /\ tpc = "in" /\ tin.fn = "md_txt"
  /\ tout' = _parse_txt(Key("T"), tin.text)
  /\ tpc' = "parsed" /\ UNCHANGED <<tin, lvars>>

TNext ==
  \/ ApplyDenoiseHtml \/ ApplyParseText \/ ApplyMdParagraphs \/ ApplyMdSentences
  \/ ApplyHtmlBlocks \/ ApplyHtmlSentences \/ ApplyBinarySentences
  \/ ApplyParseDict \/ ApplyParseTxt

SpecText == TInit /\ [][TNext]_vars

\* ------------------------------------------------ properties of the functions
\* the positions strictly increase along ps
Increasing(ps) == \A i, j \in DOMAIN ps : i < j => ps[i] < ps[j]

\* the document positions the emitted chunks hold, in the order emitted
EmittedPositions == Positions(Flatten(tout))

\* str.lower of a configured word
LowerPlain(w) == [i \in 1..Len(w) |-> LowerAtom(w[i])]

\* the word lists the denoiser works with for the given configuration
ConfiguredBadWords == or_default(tin.bad_words, DefaultBadWordsHtml)
ConfiguredStopWords == or_default(tin.stop_words, DefaultStopWordsHtml)

\* the lines of the text given to the denoiser
InputLines == split(tin.text, <<"\n">>)

\* line l contains a configured bad word, whatever the case of either
ContainsBadWord(l) ==
  \E k \in DOMAIN ConfiguredBadWords :
    contains(LowerPlain(ConfiguredBadWords[k]), lower(l))

\* the words of l that are no configured stop word, whatever the case of either
NonStopWords(l) ==
  SelectSeq(words(l),
            LAMBDA w : Plain(lower(w)) \notin
                         {LowerPlain(ConfiguredStopWords[k]) : k \in DOMAIN ConfiguredStopWords})

\* some atom of l is in an emitted chunk
Emitted(l) == Range(Positions(l)) \cap Range(EmittedPositions) # {}

\* the trimmed line l stands, whole and in one piece, in block b
InBlock(l, b) ==
  \E i \in 1..Len(b) : SubSeq(b, i, i + Len(strip(l)) - 1) = strip(l)

\* C1: every chunk the Markdown splitters emit is non-empty after whitespace
\* trimming, with and without titles, whatever the leaf content: empty, made
\* of brackets only, or holding whitespace-only lines.
C1_ChunksNonEmpty ==
  (tpc = "out" /\ tin.fn \in {"md_par", "md_sent"}) =>
    \A i \in DOMAIN tout : strip(tout[i]) # <<>>

C8_BadWordLinesDropped ==
  (tpc = "out" /\ tin.fn = "html") =>
    \A n \in DOMAIN InputLines :
      ContainsBadWord(InputLines[n]) => ~Emitted(InputLines[n])

\* C9: in the HTML denoiser a line without bad words whose count of words
\* that are no stop word (case-insensitive) is below min_words becomes a
\* paragraph break: its text is in no block and no block holds text from
\* both sides of it; a line without bad words and with a count of at least
\* min_words stands unchanged in exactly one block.
C9_ShortLinesBreak ==
  (tpc = "out" /\ tin.fn = "html") =>
    \A n \in DOMAIN InputLines :
      LET l == InputLines[n]
          before == UNION {Range(Positions(InputLines[m])) : m \in 1..(n - 1)}
          after == UNION {Range(Positions(InputLines[m])) : m \in (n + 1)..Len(InputLines)}
      IN ~ContainsBadWord(l) =>
           IF Len(NonStopWords(l)) < tin.min_words
           THEN /\ ~Emitted(l)
                /\ \A i \in DOMAIN tout :
                     ~(/\ Range(Positions(tout[i])) \cap before # {}
                       /\ Range(Positions(tout[i])) \cap after # {})
           ELSE strip(l) # <<>> =>
                  Cardinality({i \in DOMAIN tout : InBlock(l, tout[i])}) = 1

\* ---------------------------------------------- Markdown heading paths
\* the content pieces of the leaves of a heading tree, each with the chain of
\* its ancestor headings from the root down (list-valued nodes are skipped
\* by the parser and have no leaves here)
RECURSIVE LeafChains(_, _)
LeafChains(d, chain) ==
  IF d = <<>> THEN <<>>
  ELSE (CASE d[1][2].t = "dict" -> LeafChains(d[1][2].d, Append(chain, d[1][1]))
          [] d[1][2].t = "list" -> <<>>
          [] OTHER -> [i \in 1..Len(_parse_txt(d[1][1], d[1][2].s)) |->
                         <<Append(chain, d[1][1]), _parse_txt(d[1][1], d[1][2].s)[i][2]>>])
       \o LeafChains(Tail(d), chain)

\* the heading path of a chain: the empty root key, then every heading of the
\* chain once, root first, each joined to the one before by " - "
HeadingPath(chain) == Inj(<<" - ">>) \o join(<<" - ">>, chain)

\* chunk is the heading path of the leaf, a blank line, and the content
IsTitled(chunk, leaf, content) ==
  chunk = HeadingPath(leaf[1]) \o Inj(<<"\n", "\n">>) \o content

\* cs are the titled chunks of the leaves ls, one each, in order
AllTitled(cs, ls) ==
  /\ Len(cs) = Len(ls)
  /\ \A i \in DOMAIN cs : IsTitled(cs[i], ls[i], ls[i][2])

\* C14: for a nested heading tree, each chunk of
\* MarkdownParagraphSplitter.chunk with include_title=True is the heading
\* path, a blank line, and the leaf content; the path names every ancestor
\* heading of the leaf exactly once, root to leaf, joined by " - " (so it ends
\* in "Title - Sub" for a leaf under Sub under Title).
C14_HeadingPath ==
  (tpc = "out" /\ tin.fn = "md_par" /\ tin.include_title) =>
    AllTitled(tout, LeafChains(tin.raw, <<>>))

\* C14 witness: a leaf three headings deep has been emitted with its path
C14_Witness ==
  /\ tpc = "out" /\ tin.fn = "md_par" /\ tin.include_title
  /\ Len(tout) = 2 /\ Len(tout[1]) > 8
  /\ Plain(SubSeq(tout[1], 1, 8)) = <<" - ", "T", " - ", "S", " - ", "R", "\n", "\n">>

\* cs are the chunks ts without their heading path and blank line
AllUntitled(cs, ts, ls) ==
  /\ Len(cs) = Len(ts) /\ Len(cs) = Len(ls)
  /\ \A i \in DOMAIN cs : IsTitled(ts[i], ls[i], cs[i])

\* C15: with include_title=False MarkdownParagraphSplitter.chunk emits the
\* leaf contents only: as many chunks, in the same order, as the run with
\* include_title=True, each being the chunk of that run without its heading
\* path and blank line; and no chunk of MarkdownSentenceSplitter holds text
\* of a heading path.
C15_ContentOnly ==
  /\ (tpc = "out" /\ tin.fn = "md_par" /\ ~tin.include_title) =>
       AllUntitled(tout, md_paragraphs(tin.raw, TRUE), LeafChains(tin.raw, <<>>))
  /\ (tpc = "out" /\ tin.fn = "md_sent") =>
       \A i \in DOMAIN tout : \A j \in DOMAIN tout[i] : tout[i][j][2] # 0

\* C15 witness: two leaves under headings have been emitted without titles
C15_Witness ==
  /\ tpc = "out" /\ tin.fn = "md_par" /\ ~tin.include_title
  /\ Len(tout) = 2 /\ tout[1] # <<>> /\ tout[2] # <<>>
  /\ Len(LeafChains(tin.raw, <<>>)[1][1]) = 3

\* -------------------------------------------------- the denoiser's blocks
\* the text contains no tag atom
Tagless(s) == \A i \in DOMAIN s : s[i][1] \notin TagAtoms

RECURSIVE NewlineRun(_, _)
NewlineRun(s, i) ==
  IF i > Len(s) \/ s[i][1] # "\n" THEN 0 ELSE 1 + NewlineRun(s, i + 1)

\* reference splitter: the maximal segments of s between runs of three or
\* more newlines, starting at index i with cur collected so far
RECURSIVE RunSplit(_, _, _)
RunSplit(s, i, cur) ==
  IF i > Len(s) THEN <<cur>>
  ELSE IF NewlineRun(s, i) >= 3 THEN <<cur>> \o RunSplit(s, i + NewlineRun(s, i), <<>>)
  ELSE RunSplit(s, i + 1, Append(cur, s[i]))

\* the reference blocks: each segment trimmed, the empty ones discarded
ReferenceBlocks(s) ==
  SelectSeq(StripAll(RunSplit(s, 1, <<>>)), LAMBDA b : b # <<>>)

\* C19: the last step of the HTML denoiser cuts the rejoined text into the
\* maximal segments between runs of three or more newlines, whatever the
\* length of the run: trimmed and without the empty ones, its blocks are those
\* of a reference splitter on "three or more newlines".
C19_BlocksSplitOnNewlineRuns ==
  (tpc = "out" /\ tin.fn = "blocks") => tout = ReferenceBlocks(tin.text)

\* C19 witness: two words four newlines apart have come out as two blocks
C19_Witness ==
  /\ tpc = "out" /\ tin.fn = "blocks"
  /\ Plain(tin.text) = <<"word", "\n", "\n", "\n", "\n", "word">>
  /\ Len(tout) = 2

\* ------------------------------------------------ format sentence splitters
\* the floor of the sentence splitter of the format
FloorOf(fn) == IF fn = "html_sent" THEN HtmlFloor ELSE BinaryFloor

\* the lines of the block with more tokens than the floor, trimmed, in order
LinesAbove(block, floor) ==
  StripAll(SelectSeq(split(block, <<"\n">>), LAMBDA l : Len(words(l)) > floor))

\* C17: a format sentence splitter emits exactly the trimmed lines of each
\* paragraph block that have more whitespace-delimited tokens than the floor
\* (4 for HTML, 3 for PDF and DOCX), in order: no line at or below the floor
\* is emitted and no line above it is dropped.
C17_LinesAboveFloorEmitted ==
  (tpc = "out" /\ tin.fn \in {"html_sent", "bin_sent"}) =>
    tout = LinesAbove(tin.text, FloorOf(tin.fn))

\* ------------------------------------------------------ the denoiser's tags
\* the document given holds a tag
Tagged == \E i \in DOMAIN tin.text : tin.text[i][1] \in TagAtoms

\* C20: for well-formed HTML (every whitelisted tag closed, no nesting within
\* a family) every block the denoiser emits is plain text with no tag left in
\* it, also when the content of a <p> or header element holds a <br> or <div>
\* that an earlier step has turned into a newline.
C20_NoTagLeft ==
  (tpc = "out" /\ tin.fn = "html" /\ Tagged) =>
    \A i \in DOMAIN tout : Tagless(tout[i])

\* --------------------------------------------------- Markdown list nodes
\* the string items of the list-valued nodes of a tree, at every depth
\* (in_list: the node is a list or lies inside one)
RECURSIVE ListItems(_, _)
ListItems(v, in_list) ==
  CASE v.t = "dict" -> UNION {ListItems(v.d[i][2], in_list) : i \in DOMAIN v.d}
    [] v.t = "list" -> UNION {ListItems(v.d[i], TRUE) : i \in DOMAIN v.d}
    [] OTHER -> IF in_list THEN {v.s} ELSE {}

\* the pair holds text of the item
DerivesFrom(pair, item) == Range(Positions(pair[2])) \cap Range(Positions(item)) # {}

\* C21: list-valued nodes are skipped or parsed as skip_lists says, at every
\* depth of the tree: with skip_lists=True no emitted pair derives from a
\* list-valued node, and with skip_lists=False every string item of every
\* list-valued node, also of a list under a sub-heading, produces a pair.
C21_SkipListsHonoured ==
  (tpc = "parsed" /\ tin.fn = "md_tree") =>
    \A item \in ListItems(Dict(tin.raw), FALSE) :
      (\E i \in DOMAIN tout : DerivesFrom(tout[i], item)) <=> ~tin.skip_lists

\* ------------------------------------------------ Markdown leaf contents
\* the atoms of a leaf that are no part of any sub-chunk
IsMarker(a) == a \in {"<details>", "</details>"}
IsBracket(a) == a \in {"[", "]"}

\* the positions of the text of the leaf: neither marker, bracket nor blank
TextPositions(d) ==
  {d[i][2] : i \in {j \in DOMAIN d : ~IsMarker(d[j][1]) /\ ~IsBracket(d[j][1])
                                       /\ ~IsSpace(d[j][1])}}

\* the positions of the markers of the leaf
MarkerPositions(d) == {d[i][2] : i \in {j \in DOMAIN d : IsMarker(d[j][1])}}

\* the leaf has an opening marker with a closing marker after it
HasWrapper(d) ==
  \E i, j \in DOMAIN d : i < j /\ d[i][1] = "<details>" /\ d[j][1] = "</details>"

\* the leaf has a closing marker
HasClosing(d) == \E j \in DOMAIN d : d[j][1] = "</details>"

\* the pairs are the sub-chunks of the leaf d cut at every marker: all under
\* the heading k, in source order, none empty, none with a bracket or a marker
\* in it, none reaching across a marker, and all the text of the leaf in them
CutAtMarkers(pairs, k, d) ==
  /\ \A i \in DOMAIN pairs :
       /\ pairs[i][1] = k
       /\ pairs[i][2] # <<>>
       /\ \A j \in DOMAIN pairs[i][2] :
            ~IsMarker(pairs[i][2][j][1]) /\ ~IsBracket(pairs[i][2][j][1])
       /\ \A m \in MarkerPositions(d) :
            \/ \A q \in Range(Positions(pairs[i][2])) : q < m
            \/ \A q \in Range(Positions(pairs[i][2])) : q > m
  /\ Increasing(Positions(Flatten([i \in DOMAIN pairs |-> pairs[i][2]])))
  /\ TextPositions(d) = UNION {TextPositions(pairs[i][2]) : i \in DOMAIN pairs}
  /\ \A i \in DOMAIN pairs : strip(pairs[i][2]) = pairs[i][2]

\* the pairs are the one chunk of the leaf d: its content without brackets,
\* trimmed
OneChunk(pairs, k, d) ==
  /\ Len(pairs) = 1 /\ pairs[1][1] = k
  /\ pairs[1][2] = strip(SelectSeq(d, LAMBDA a : ~IsBracket(a[1])))

BlockHasBadWord(c) ==
  \E k \in DOMAIN tin.bad_words : contains(LowerPlain(tin.bad_words[k]), lower(c))

\* the words of block c that are no configured stop word, whatever the case
\* of either, and are longer than 3 characters
CountedWords(c) ==
  SelectSeq(words(c),
            LAMBDA w : /\ Plain(lower(w)) \notin
                            {LowerPlain(tin.stop_words[k]) : k \in DOMAIN tin.stop_words}
                       /\ len(w) > 3)

\* C24: of the blocks that the extracted text of a PDF or DOCX splits into at
\* blank lines, exactly those are emitted, trimmed and in order, that contain
\* no bad word as a case-insensitive substring and have at least min_words
\* words that are neither stop words nor of length 3 or less; a rejected block
\* is dropped and leaves no separator, and a block with a bad word is dropped
\* whatever its length.
C24_BlocksFiltered ==
  (tpc = "out" /\ tin.fn = "pdf") =>
    tout = StripAll(SelectSeq(split(tin.text, <<"\n", "\n">>),
                              LAMBDA c : /\ ~BlockHasBadWord(c)
                                         /\ Len(CountedWords(c)) >= tin.min_words))

\* ============================================================ the splitter
\* One splitter instance, a caller that invokes chunk() and a consumer that
\* iterates what chunk() returned.
\* the configurations a splitter is constructed with (a dict of options)
Configs ==
  { <<>>,
    [bad_words |-> <<>>, stop_words |-> <<>>, min_words |-> 1],
    [bad_words |-> << <<"word">> >>, stop_words |-> << <<"the">> >>, min_words |-> 5] }

Init ==
  /\ \E kind \in Kinds, config \in Configs : splitter = Construct(kind, config)
  /\ built = splitter
  /\ LIdle /\ TIdle

\* chunk(data) of a splitter whose chunk() runs its body and returns a list
CallList(d) ==
  /\ pc = "idle" /\ ncalls < MaxCalls /\ splitter.kind \in ListKinds
  /\ \E r \in {chunk_body(splitter, d)} :
        /\ fetches' = r.fetched /\ opened' = r.opened /\ err' = r.err
        /\ pc' = IF r.err = "none" THEN "returned" ELSE "failed"
        /\ obj' = IF r.err = "none"
                  THEN [lazy |-> FALSE, started |-> TRUE, items |-> r.items, cursor |-> 0]
                  ELSE NoObj
  /\ data' = d /\ out' = <<>> /\ npass' = 0 /\ ncalls' = ncalls + 1
  /\ splitter' = instance_after_chunk(splitter)
  /\ UNCHANGED <<built, first, tvars>>

\* chunk(data) of a splitter whose chunk() is a generator function: the call
\* returns a generator that has not run yet
CallGenerator(d) ==
  /\ pc = "idle" /\ ncalls < MaxCalls /\ splitter.kind \notin ListKinds
  /\ pc' = "returned"
  /\ obj' = [lazy |-> TRUE, started |-> FALSE, items |-> <<>>, cursor |-> 0]
  /\ data' = d /\ out' = <<>> /\ npass' = 0 /\ ncalls' = ncalls + 1
  /\ fetches' = <<>> /\ opened' = <<>> /\ err' = "none"
  /\ UNCHANGED <<splitter, built, first, tvars>>

\* the consumer's first next() on a generator: the body runs to its first
\* yield, to its end or to the error it raises
Start ==
  /\ pc = "returned" /\ obj.lazy /\ ~obj.started
  /\ \E r \in {chunk_body(splitter, data)} :
        /\ fetches' = r.fetched /\ opened' = r.opened /\ err' = r.err
        /\ obj' = [lazy |-> TRUE, started |-> TRUE, items |-> r.items,
                   cursor |-> IF r.items = <<>> THEN 0 ELSE 1]
        /\ out' = IF r.items = <<>> THEN <<>> ELSE <<r.items[1]>>
        /\ pc' = IF r.err # "none" THEN "failed"
                 ELSE IF r.items = <<>> THEN "exhausted" ELSE "iterating"
  /\ npass' = 1
  /\ splitter' = instance_after_chunk(splitter)
  /\ UNCHANGED <<built, data, ncalls, first, tvars>>

\* next(): the next element
Yield ==
  /\ pc \in {"returned", "iterating"} /\ obj.started /\ obj.cursor < Len(obj.items)
  /\ out' = Append(out, obj.items[obj.cursor + 1])
  /\ obj' = [obj EXCEPT !.cursor = @ + 1]
  /\ pc' = "iterating"
  /\ npass' = IF npass = 0 THEN 1 ELSE npass
  /\ UNCHANGED <<splitter, built, data, fetches, opened, err, ncalls, first, tvars>>

\* next(): StopIteration
Stop ==
  /\ pc \in {"returned", "iterating"} /\ obj.started /\ obj.cursor = Len(obj.items)
  /\ pc' = "exhausted"
  /\ npass' = IF npass = 0 THEN 1 ELSE npass
  /\ UNCHANGED <<splitter, built, data, obj, out, fetches, opened, err, ncalls, first, tvars>>

\* the consumer iterates the same object once more: iter() of a list starts
\* at its first element, iter() of a generator is the generator itself
Reiterate ==
  /\ pc = "exhausted" /\ npass < MaxPasses
  /\ npass' = npass + 1
  /\ out' = <<>>
  /\ obj' = IF obj.lazy THEN obj ELSE [obj EXCEPT !.cursor = 0]
  /\ pc' = "iterating"
  /\ UNCHANGED <<splitter, built, data, fetches, opened, err, ncalls, first, tvars>>

\* the consumer drops the object, wherever it stands
Discard ==
  /\ pc \in {"returned", "iterating", "exhausted", "failed"}
  /\ first' = IF ~first.set /\ npass <= 1
              THEN [set |-> TRUE, data |-> data, chunks |-> out, err |-> err,
                    full |-> pc \in {"exhausted", "failed"}]
              ELSE first
  /\ pc' = "idle" /\ data' = <<>> /\ obj' = NoObj /\ out' = <<>> /\ npass' = 0
  /\ fetches' = <<>> /\ opened' = <<>> /\ err' = "none"
  /\ UNCHANGED <<splitter, built, ncalls, tvars>>

Next ==
  \/ \E d \in Inputs : CallList(d)
  \/ \E d \in Inputs : CallGenerator(d)
  \/ Start
  \/ Yield
  \/ Stop
  \/ Reiterate
  \/ Discard

Spec == Init /\ [][Next]_vars

\* ------------------------------------------------- properties of the splitter
\* the body of the current chunk() call has run
BodyRan == pc # "idle" /\ (obj.started \/ pc = "failed")

\* data starts with a URL scheme
IsUrl(d) == d # <<>> /\ d[1] \in {"http://", "https://"}

\* the fetch of the current call came back with a non-success status
FetchRefused ==
  /\ fetches # <<>>
  /\ fetches[1] \in DOMAIN Web
  /\ ~Web[fetches[1]].ok

\* a is a prefix of b or b is a prefix of a
Agree(a, b) == \A i \in 1..Min({Len(a), Len(b)}) : a[i] = b[i]

\* the blocks the parser of a paragraph splitter gives for the content when it
\* works with the options of config: its bad_words (none, if the list is
\* empty), its stop_words and its min_words
WithConfig(kind, content, config) ==
  IF kind = "html_par"
  THEN html_blocks(join(<<"\n">>,
         filter_lines(split(content, <<"\n">>), config.bad_words,
                      or_default(config.stop_words, DefaultStopWordsHtml),
                      config.min_words)))
  ELSE parse_text(content, config.bad_words, config.stop_words, config.min_words)

\* C3: chunk(data) gives data to the fetch collaborator if and only if data
\* starts with http:// or https://; text that merely begins with the letters
\* http, and every other input, is never fetched.
C3_FetchIffUrl ==
  BodyRan => (fetches # <<>> <=> IsUrl(data))

\* C4: input resolution is exclusive: a call that fetched opens no local file
\* and runs no path-based extraction (the response body is content, never a
\* path), and the only path a call ever opens is its data argument.
C4_ExclusiveResolution ==
  BodyRan =>
    /\ fetches # <<>> => opened = <<>>
    /\ \A i \in DOMAIN opened : opened[i] = data

\* C5: when the fetch comes back with a non-success status the call fails
\* with an error the caller sees, the consumer gets no chunk, none is held
\* back for it either, and the collaborator was invoked exactly once.
C5_FetchFailureSurfaced ==
  /\ Len(fetches) <= 1
  /\ FetchRefused =>
       /\ pc = "failed" /\ err # "none"
       /\ out = <<>> /\ obj.items = <<>>
       /\ fetches = <<data>>

\* C5 witness: a call on the URL that answers with an error status has failed
C5_Witness ==
  /\ pc = "failed" /\ data = UrlBad /\ fetches = <<UrlBad>> /\ err = "HTTPError"

\* C6: what chunk() returns is lazy and not restartable, for every splitter:
\* when the call returns and the consumer has not advanced yet nothing has
\* been computed or fetched, and a second pass over the same object yields no
\* element.
C6_LazyNotRestartable ==
  /\ (pc = "returned" /\ npass = 0) => (~obj.started /\ fetches = <<>> /\ opened = <<>>)
  /\ npass >= 2 => out = <<>>

C10_ConfigApplied ==
  (/\ BodyRan /\ err = "none"
   /\ splitter.kind \in {"html_par", "pdf_par", "docx_par"}
   /\ splitter.config # <<>>) =>
    obj.items = WithConfig(splitter.kind, Tag(resolve(splitter.kind, data).content, 0),
                           splitter.config)

\* ===================================================== the text splitters
\* The splitters of the text package: the backend-model families (SaT, WtP)
\* and the regex family.  They get literal text and have no input resolution.

\* most paragraphs of a text and most sentences of a paragraph, as a
\* boundary-detection backend segments it
MaxParagraphs == 2
MaxSentences == 2

\* ----------------------------------------------- backend-model construction
SatValidModels ==
  {"sat-1l", "sat-3l", "sat-3l-sm", "sat-3l-lora", "sat-6l", "sat-6l-sm",
   "sat-9l", "sat-9l-sm", "sat-12l", "sat-12l-sm", "sat-12l-lora"}
WtpValidModels ==
  {"wtp-bert-tiny", "wtp-bert-mini", "wtp-canine-s-1l", "wtp-canine-s-1l-no-adapters",
   "wtp-canine-s-3l", "wtp-canine-s-3l-no-adapters", "wtp-canine-s-6l",
   "wtp-canine-s-6l-no-adapters", "wtp-canine-s-9l", "wtp-canine-s-9l-no-adapters",
   "wtp-canine-s-12l", "wtp-canine-s-12l-no-adapters"}

\* VALID_MODELS of the class
VALID_MODELS(family) == IF family = "sat" THEN SatValidModels ELSE WtpValidModels

\* config or {"model": ...}: None and the empty dict take the default
default_config(family, config) ==
  IF config # <<>> THEN config
  ELSE IF family = "sat" THEN [model |-> "sat-3l-sm"] ELSE [model |-> "wtp-bert-mini"]

\* config.get(key, default)
get(config, key, default) == IF key \in DOMAIN config THEN config[key] ELSE default

\* "bert" in self.model
has_bert(model) == model \in {"wtp-bert-tiny", "wtp-bert-mini"}

\* no backend handle
NoHandle == [origin |-> "none", model |-> "none", device |-> "none", nests |-> "none"]

\* SaT(model) / WtP(model), placed on the device the options ask for: a handle
\* of the library nests its result when asked for paragraph segmentation
new_handle(family, model, cuda, onnx) ==
  [origin |-> IF family = "wtp" /\ has_bert(model) /\ onnx THEN "constructed-onnx"
              ELSE "constructed",
   model |-> model, device |-> IF cuda THEN "cuda" ELSE "cpu", nests |-> "paragraphs"]

\* a model name that passes everything
model_unchecked(family, model) == TRUE

\* assert self.model in self.VALID_MODELS
model_checked(family, model) == model \in VALID_MODELS(family)

\* the outcome of a constructor: the exception it raised, the attributes of
\* self it had assigned, and the handles it had the backend library construct
Built(raised, config, model, handle, handles) ==
  [raised |-> raised, self |-> [config |-> config, model |-> model, splitter |-> handle],
   handles |-> handles, chunks |-> <<>>]

\* the rest of __init__ once self.model is assigned
init_with_model(family, cfg, injected) ==
  IF ~model_checked(family, cfg.model)
  THEN Built("AssertionError", cfg, cfg.model, NoHandle, <<>>)
  ELSE IF injected # NoHandle
  THEN Built("none", cfg, cfg.model, injected, <<>>)
  ELSE Built("none", cfg, cfg.model,
             new_handle(family, cfg.model, get(cfg, "use_cuda", FALSE), get(cfg, "use_onnx", TRUE)),
             <<new_handle(family, cfg.model, get(cfg, "use_cuda", FALSE), get(cfg, "use_onnx", TRUE))>>)

\* __init__ with config already defaulted: self.config, then self.config["model"]
init_with_config(family, cfg, injected) ==
  IF "model" \notin DOMAIN cfg
  THEN Built("KeyError", cfg, "none", NoHandle, <<>>)
  ELSE init_with_model(family, cfg, injected)

\* SaTSentenceSplitter.__init__ / WtPSentenceSplitter.__init__, which the
\* paragraph splitters inherit
backend_init(family, config, injected) ==
  init_with_config(family, default_config(family, config), injected)

\* ------------------------------------------------------- backend-model chunk
\* the text as the backend segments it: paragraph p has shape[p] sentences
Sentence(p, k) == Str(<< <<"word", 10 * p + k>> >>)
Segments(shape) ==
  [p \in 1..Len(shape) |-> List([k \in 1..shape[p] |-> Sentence(p, k)])]

\* the sentences of all paragraphs, in one flat sequence
RECURSIVE flat(_)
flat(nested) == IF nested = <<>> THEN <<>> ELSE Head(nested).d \o flat(Tail(nested))

\* splitter.split(data, do_paragraph_segmentation=...): one inner sequence per
\* paragraph when it nests, a flat sequence of spans when it does not
backend_split(handle, shape, do_paragraph_segmentation) ==
  IF do_paragraph_segmentation \/ handle.nests = "always"
  THEN Segments(shape)
  ELSE flat(Segments(shape))

\* for chunk in ...: if isinstance(chunk, list): yield each c, else: yield chunk
RECURSIVE flatten_lists(_)
flatten_lists(result) ==
  IF result = <<>> THEN <<>>
  ELSE (IF Head(result).t = "list" THEN Head(result).d ELSE <<Head(result)>>)
       \o flatten_lists(Tail(result))

\* WtPSentenceSplitter.chunk / WtPParagraphSplitter.chunk
wtp_chunk(self, shape, level) ==
  flatten_lists(backend_split(self.splitter, shape, level = "par"))

\* SaTSentenceSplitter.chunk / SaTParagraphSplitter.chunk: yield from
sat_chunk(self, shape, level) == backend_split(self.splitter, shape, level = "par")

\* ------------------------------------------------------------ regex family
\* longest text given to a regex splitter, in atoms
MaxPlainLen == 5

\* The tokenizers are the library's.  Which texts make them throw is decided
\* outside the repository: here it is the texts that carry one of these marks.
ParagraphTrap == "<bad-par>"
SentenceTrap == "<bad-sent>"
\* A tokenizer may be a generator, which fails only when the loop reaches the
\* piece that carries this mark, after the pieces before it were handed out.
LateTrap == "<late>"

\* the result of a call: the exception it raised and what it produced before
Ok(items) == [err |-> "none", items |-> items]
Raised(e) == [err |-> e, items |-> <<>>]

\* one step of a loop body followed by the rest of the loop: an exception in
\* the step ends the loop
then(h, rest) ==
  IF h.err # "none" THEN h ELSE [err |-> rest.err, items |-> h.items \o rest.items]

\* an exception leaves the try block uncaught
guarded_reraising(r, fallback) == r

\* try: <r>  except: yield fallback
guarded(r, fallback) ==
  IF r.err # "none" THEN Ok(r.items \o <<fallback>>) ELSE r

\* the indices of the pieces at which a lazy tokenizer fails
LateAt(pieces) == {i \in DOMAIN pieces : LateTrap \in Range(Plain(pieces[i]))}

\* the iteration over the pieces of a tokenizer: all of them, or those before
\* the piece at which it fails
lazily(pieces) ==
  IF LateAt(pieces) = {} THEN Ok(pieces)
  ELSE [err |-> "Exception", items |-> SubSeq(pieces, 1, Min(LateAt(pieces)) - 1)]

\* paragraph_tokenize(c): the pieces of c between blank lines
paragraph_tokenize(c) ==
  IF ParagraphTrap \in Range(Plain(c)) THEN Raised("Exception")
  ELSE lazily(split(c, <<"\n", " ", "\n">>))

\* sentence_tokenize(p) of the regex splitter, which may throw
sentence_tokenize_call(p) ==
  IF SentenceTrap \in Range(Plain(p)) THEN Raised("Exception")
  ELSE lazily(sentence_tokenize(p))

\* the pieces of r, each yielded by the yield statement `site`: what the
\* generator yields is a pair of the text and the statement that yields it
yielded_at(site, r) ==
  [err |-> r.err, items |-> [i \in DOMAIN r.items |-> <<r.items[i], site>>]]

\* the texts and the yield statements of what was yielded
Texts(items) == [i \in DOMAIN items |-> items[i][1]]
Sites(items) == [i \in DOMAIN items |-> items[i][2]]

\* the inner loop of RegexSentenceSplitter.chunk over the paragraphs of a block
RECURSIVE sentences_loop(_)
sentences_loop(ps) ==
  IF ps = <<>> THEN Ok(<<>>)
  ELSE then(IF strip(Head(ps)) = <<>> THEN Ok(<<>>)
            ELSE guarded(yielded_at("yield s", sentence_tokenize_call(Head(ps))),
                         <<Head(ps), "yield p">>),
            sentences_loop(Tail(ps)))

\* try: for p in paragraph_tokenize(c): ...: the loop over the pieces that the
\* tokenizer r hands out, then its failure if it has one
block_sentences(r) == then(sentences_loop(r.items), [err |-> r.err, items |-> <<>>])

\* the outer loop of RegexSentenceSplitter.chunk over the lines of the data
RECURSIVE regex_sentence_loop(_)
regex_sentence_loop(cs) ==
  IF cs = <<>> THEN Ok(<<>>)
  ELSE then(IF strip(Head(cs)) = <<>> THEN Ok(<<>>)
            ELSE guarded(block_sentences(paragraph_tokenize(Head(cs))),
                         <<Head(cs), "yield c">>),
            regex_sentence_loop(Tail(cs)))

\* RegexSentenceSplitter.chunk
regex_sentence_chunk(text) == regex_sentence_loop(split(text, <<"\n">>))

\* the loop of RegexParagraphSplitter.chunk over the blocks of the data
RECURSIVE regex_paragraph_loop(_)
regex_paragraph_loop(cs) ==
  IF cs = <<>> THEN Ok(<<>>)
  ELSE then(IF strip(Head(cs)) = <<>> THEN Ok(<<>>)
            ELSE guarded(yielded_at("yield p", paragraph_tokenize(Head(cs))),
                         <<Head(cs), "yield c">>),
            regex_paragraph_loop(Tail(cs)))

\* RegexParagraphSplitter.chunk
regex_paragraph_chunk(text) == regex_paragraph_loop(split(text, <<"\n", "\n">>))

\* RegexSentenceSplitter.__init__ / RegexParagraphSplitter.__init__: the config
\* is stored and no paragraph splitter is constructed
regex_init(level, config) ==
  Construct(IF level = "sent" THEN "regex_sent" ELSE "regex_par", config)

\* the chunks that the paragraph splitter owned by the instance produces
\* during chunk(data): none when the instance owns no paragraph splitter
inner_paragraphs(self, text) ==
  IF self.splitter.kind = "none" THEN <<>> ELSE Texts(regex_paragraph_chunk(text).items)

\* the state after chunk(data) has run to its end with result r
RegexRun(self, text, r) ==
  [raised |-> r.err, chunks |-> Texts(r.items), self |-> self,
   paragraphs |-> inner_paragraphs(self, text)]

\* chunk(data) of the splitter of the level
regex_chunk(level, text) ==
  IF level = "sent" THEN regex_sentence_chunk(text) ELSE regex_paragraph_chunk(text)

\* the yield statements inside a try block with a bare except: a
\* GeneratorExit raised at them is caught by the handler
InTry(site) == site \in {"yield s", "yield p"}

\* the generator object after n calls of next(): the chunks handed out, the
\* yield statement it is suspended at, and whether it has finished
Suspended(r, n) ==
  [raised |-> "none", chunks |-> Texts(SubSeq(r.items, 1, n)), site |-> r.items[n][2],
   finished |-> FALSE]

\* close() of the generator g: GeneratorExit is raised at the yield statement
\* it is suspended at.  Outside the try blocks it ends the generator; inside
\* one the bare except catches it and its handler yields, which close()
\* answers with a RuntimeError, and the generator stays suspended there
close(g) ==
  IF InTry(g.site)
  THEN [g EXCEPT !.raised = "RuntimeError",
                 !.site = IF g.site = "yield s" THEN "yield p" ELSE "yield c"]
  ELSE [g EXCEPT !.finished = TRUE]

\* ------------------------------------------------ the text splitters applied
\* the options a backend-model splitter is constructed with (<<>>: none given)
BackendConfigs ==
  { <<>>,
    [model |-> "sat-12l"], [model |-> "wtp-canine-s-1l"],
    [model |-> "wtp-bert-tiny", use_cuda |-> TRUE],
    [model |-> "wtp-bert-tiny", use_onnx |-> FALSE, use_cuda |-> TRUE],
    [model |-> "sat-1l", use_cuda |-> TRUE],
    [model |-> "large"],
    [use_cuda |-> TRUE] }

\* the pre-built backends a caller may hand to the constructor
InjectedHandles ==
  { NoHandle,
    [origin |-> "injected", model |-> "own", device |-> "cpu", nests |-> "paragraphs"],
    [origin |-> "injected", model |-> "own", device |-> "cpu", nests |-> "always"] }

\* the segmentations: at most MaxParagraphs paragraphs of at most MaxSentences
Shapes == SeqsUpTo(1..MaxSentences, MaxParagraphs)

PInitBackend ==
  \E family \in {"sat", "wtp"}, level \in {"sent", "par"}, config \in BackendConfigs,
     h \in InjectedHandles, shape \in Shapes :
    tin = [fn |-> "backend", family |-> family, level |-> level, config |-> config,
           splitter |-> h, shape |-> shape]

\* the texts given to a regex splitter
RegexAtoms == {"word", ".", " ", "\n", ParagraphTrap, SentenceTrap, LateTrap}

PInitRegex ==
  \E level \in {"sent", "par"}, t \in SeqsUpTo(RegexAtoms, MaxPlainLen) :
    tin = [fn |-> "regex", level |-> level, text |-> Tag(t, 0)]

PInit ==
  /\ PInitBackend \/ PInitRegex
  /\ tout = <<>> /\ tpc = "in"
  /\ splitter = Construct("md_par", <<>>) /\ built = splitter /\ LIdle

\* SaTSentenceSplitter(config, splitter), WtPParagraphSplitter(config, splitter), ...
ConstructBackend ==
  /\ tpc = "in" /\ tin.fn = "backend"
  /\ tout' = backend_init(tin.family, tin.config, tin.splitter)
  /\ tpc' = "built" /\ UNCHANGED <<tin, lvars>>

\* chunk(data) of a SaT splitter: there is an instance only if __init__ returned
ChunkSaT ==
  /\ tpc = "built" /\ tin.fn = "backend" /\ tin.family = "sat" /\ tout.raised = "none"
  /\ tout' = [tout EXCEPT !.chunks = sat_chunk(tout.self, tin.shape, tin.level)]
  /\ tpc' = "out" /\ UNCHANGED <<tin, lvars>>

\* chunk(data) of a WtP splitter
ChunkWtP ==
  /\ tpc = "built" /\ tin.fn = "backend" /\ tin.family = "wtp" /\ tout.raised = "none"
  /\ tout' = [tout EXCEPT !.chunks = wtp_chunk(tout.self, tin.shape, tin.level)]
  /\ tpc' = "out" /\ UNCHANGED <<tin, lvars>>

\* RegexSentenceSplitter().chunk(data), run to its end
ChunkRegexSentence ==
  /\ tpc = "in" /\ tin.fn = "regex" /\ tin.level = "sent"
  /\ tout' = RegexRun(regex_init(tin.level, <<>>), tin.text, regex_sentence_chunk(tin.text))
  /\ tpc' = "out" /\ UNCHANGED <<tin, lvars>>

\* RegexParagraphSplitter().chunk(data), run to its end
ChunkRegexParagraph ==
  /\ tpc = "in" /\ tin.fn = "regex" /\ tin.level = "par"
  /\ tout' = RegexRun(regex_init(tin.level, <<>>), tin.text, regex_paragraph_chunk(tin.text))
  /\ tpc' = "out" /\ UNCHANGED <<tin, lvars>>

\* next() on the generator of a regex splitter that has a chunk to yield
NextRegex ==
  /\ tin.fn = "regex" /\ tpc \in {"in", "iter"}
  /\ \E r \in {regex_chunk(tin.level, tin.text)} :
       \E n \in {IF tpc = "in" THEN 1 ELSE Len(tout.chunks) + 1} :
         /\ n <= Len(r.items)
         /\ tout' = Suspended(r, n)
  /\ tpc' = "iter" /\ UNCHANGED <<tin, lvars>>

\* close() on the partially consumed generator of a regex splitter
CloseRegex ==
  /\ tin.fn = "regex" /\ tpc = "iter"
  /\ tout' = close(tout)
  /\ tpc' = "closed" /\ UNCHANGED <<tin, lvars>>

PNext ==
  \/ ConstructBackend \/ ChunkSaT \/ ChunkWtP
  \/ ChunkRegexSentence \/ ChunkRegexParagraph
  \/ NextRegex \/ CloseRegex

SpecPlain == PInit /\ [][PNext]_vars

\* ------------------------------------------- properties of the text splitters
\* the model name the constructor ends up with: "none" if the options name none
ConfiguredModel == get(default_config(tin.family, tin.config), "model", "none")

\* C11: with a backend whose split() returns one inner sequence per paragraph,
\* every element the chunk() of a backend-model splitter emits is a flat text
\* span, never a sequence.
C11_ChunksAreFlat ==
  (/\ tpc = "out" /\ tin.fn = "backend"
   /\ \A i \in DOMAIN backend_split(tout.self.splitter, tin.shape, tin.level = "par") :
         backend_split(tout.self.splitter, tin.shape, tin.level = "par")[i].t = "list") =>
    \A i \in DOMAIN tout.chunks : tout.chunks[i].t = "str"

\* x is one of the chunks emitted
Yielded(x) == x \in Range(tout.chunks)

\* every piece of the sequence is one of the chunks emitted
AllYielded(xs) == \A i \in DOMAIN xs : Yielded(xs[i])

\* the paragraph is emitted unchanged if its sentence tokenization throws,
\* and as its sentences otherwise
ParagraphHandled(p) ==
  IF sentence_tokenize_call(p).err # "none" THEN Yielded(p)
  ELSE AllYielded(sentence_tokenize_call(p).items)

\* the block is emitted unchanged if its paragraph tokenization throws, and
\* as what its paragraphs give otherwise
BlockHandled(c, level) ==
  IF paragraph_tokenize(c).err # "none" THEN Yielded(c)
  ELSE IF level = "par" THEN AllYielded(paragraph_tokenize(c).items)
  ELSE \A i \in DOMAIN paragraph_tokenize(c).items :
         strip(paragraph_tokenize(c).items[i]) # <<>> =>
           ParagraphHandled(paragraph_tokenize(c).items[i])

\* the blocks the splitter of this level cuts the data into
RegexBlocks ==
  split(tin.text, IF tin.level = "par" THEN <<"\n", "\n">> ELSE <<"\n">>)

\* C12: in the regex family no tokenizer failure reaches the caller: a block
\* whose paragraph tokenization throws is emitted unchanged, a paragraph whose
\* sentence tokenization throws is emitted unchanged, and every other
\* block, before or after a failing one, is still emitted as its pieces.
C12_TokenizerFailureContained ==
  (tpc = "out" /\ tin.fn = "regex") =>
    /\ tout.raised = "none"
    /\ \A i \in DOMAIN RegexBlocks :
         strip(RegexBlocks[i]) # <<>> => BlockHandled(RegexBlocks[i], tin.level)

\* C12 witness: the sentence splitter has emitted a paragraph whose sentence
\* tokenization throws, unchanged, and after it the sentence of a later block
C12_Witness ==
  /\ tpc = "out" /\ tin.fn = "regex" /\ tin.level = "sent"
  /\ \E i, j \in DOMAIN tout.chunks :
       /\ i < j
       /\ SentenceTrap \in Range(Plain(tout.chunks[i]))
       /\ Plain(tout.chunks[j]) = <<"word", ".">>

\* x is a piece of p: a run of consecutive atoms of it
IsPiece(x, p) == \E i \in 1..(Len(p) + 1), j \in 0..Len(p) : x = SubSeq(p, i, j)

\* C18: every chunk a sentence splitter emits is a piece of a chunk that the
\* paragraph splitter constructed and owned by that sentence splitter produced
\* for the same input; the sentence splitter does not tokenize the raw input
\* itself.  Stated here for the regex sentence splitter.
C18_SentencesFromOwnParagraphs ==
  (tpc = "out" /\ tin.fn = "regex" /\ tin.level = "sent") =>
    /\ tout.self.splitter.kind # "none"
    /\ \A i \in DOMAIN tout.chunks :
         \E k \in DOMAIN tout.paragraphs : IsPiece(tout.chunks[i], tout.paragraphs[k])

\* no position occurs twice in the sequence
NoRepeat(ps) == \A i, j \in DOMAIN ps : i # j => ps[i] # ps[j]

\* C25: the regex splitters emit for each block either the pieces its
\* tokenizer gives or the untokenized block, never both: no text of the
\* input is emitted twice, also when a tokenizer fails after some of its
\* pieces were already yielded.
C25_NoTextTwice ==
  (tpc = "out" /\ tin.fn = "regex") => NoRepeat(Positions(Flatten(tout.chunks)))

\* C23: cancellation is silent: when a partially consumed chunk sequence of a
\* regex splitter is closed, at whichever yield statement it is suspended,
\* the producer ends, yields no further chunk and raises no error to the
\* consumer.
C23_CloseIsSilent ==
  (tpc = "closed" /\ tin.fn = "regex") => tout.raised = "none" /\ tout.finished

\* C13: a backend-model splitter given a model name outside VALID_MODELS
\* fails in its constructor, with or without an injected splitter, before a
\* backend handle is constructed or stored; so chunk() only ever runs on an
\* instance whose model is valid.
C13_InvalidModelFailsAtConstruction ==
  (tin.fn = "backend" /\ tpc \in {"built", "out"}) =>
    /\ ConfiguredModel \notin VALID_MODELS(tin.family) =>
         /\ tpc = "built" /\ tout.raised # "none"
         /\ tout.handles = <<>> /\ tout.self.splitter = NoHandle
    /\ tpc = "out" => tout.self.model \in VALID_MODELS(tin.family)

\* C13 witness: construction with an injected splitter and an invalid model
\* name has failed on the assertion
C13_Witness ==
  /\ tpc = "built" /\ tin.fn = "backend" /\ tin.splitter # NoHandle
  /\ ConfiguredModel = "large" /\ tout.raised = "AssertionError"

====
